---- MODULE Spec2Model ----
(***************************************************************************)
(* Model of application.py: the load-once coordinator for the two pickled *)
(* artifacts (_load_artifacts_once), the inference wrapper (_predict_text),*)
(* the eager background loader and the HTTP handlers health, predict_json  *)
(* and predict_form.  Every thread is a process with a program counter;    *)
(* one step is one statement (or one lock operation) of the source.  Each  *)
(* request is served on a thread of its own.                               *)
(***************************************************************************)
EXTENDS Integers, Sequences, FiniteSets, TLC

VARIABLES
    modelFile,      \* what is at MODEL_PATH on disk
    vecFile,        \* what is at VECTORIZER_PATH on disk
    loaded_model,   \* global _loaded_model (None or the unpickled object)
    vectorizer,     \* global _vectorizer   (None or the unpickled object)
    artifact_lock,  \* holder of _artifact_lock, or NoThread
    pc,             \* position of every thread
    exc,            \* exception in flight in every thread
    req,            \* request a worker thread is serving
    reply,          \* the HTTP response sent by the last step, if any
    eagerLog,       \* what _eager_load_background has logged
    modelLoads,     \* times MODEL_PATH was unpickled and stored into _loaded_model
    vecLoads,       \* times VECTORIZER_PATH was unpickled and stored into _vectorizer
    everInvalid     \* whether either file has ever been other than valid

vars == <<modelFile, vecFile, loaded_model, vectorizer, artifact_lock, pc, exc,
          req, reply, eagerLog, modelLoads, vecLoads,
          everInvalid>>

(* ------------------------------ bounds --------------------------------- *)
MaxRequests == 2

(* ---------------------------- vocabulary ------------------------------- *)
EagerThread == 0
Workers == 1..MaxRequests
Threads == {EagerThread} \cup Workers
NoThread == -1

\* a file is absent, not a pickle, or a pickle of the expected object
FileStates == {"missing", "corrupt", "valid"}

\* None, and otherwise the identity of the unpickled object: the n-th object
\* unpickled from the file is n
None == 0
NoReq == [endpoint |-> "", message |-> <<>>]
NoReply == [endpoint |-> "", status |-> 0, keys |-> {}, label |-> "",
            model_loaded |-> FALSE, message |-> <<>>, raised |-> "none"]

Whitespace == {" ", "\t"}

\* texts a client may send as the message
JsonTexts == {<<>>, <<" ">>, <<" ", "a", "\t">>}
FormTexts == {<<>>, <<"\t", " ">>, <<"b", " ">>}
NoField == [present |-> FALSE, text |-> <<>>]
JsonBodies == {NoField} \cup
              {[present |-> TRUE, text |-> s] : s \in JsonTexts}
FormBodies == {NoField} \cup
              {[present |-> TRUE, text |-> s] : s \in FormTexts}

(* ------------------------- pure helper functions ----------------------- *)
RECURSIVE LStrip(_)
LStrip(s) == IF s # <<>> /\ Head(s) \in Whitespace THEN LStrip(Tail(s)) ELSE s

RECURSIVE RStrip(_)
RStrip(s) == IF s # <<>> /\ s[Len(s)] \in Whitespace
             THEN RStrip(SubSeq(s, 1, Len(s) - 1)) ELSE s

\* str.strip()
Strip(s) == RStrip(LStrip(s))

\* a predict_json that forgets .strip()
JsonMessageUnstripped(body) == IF body.present THEN body.text ELSE <<>>

\* str(data.get("message", "")).strip()
JsonMessage(body) ==
    Strip(IF ~body.present THEN <<>>
          ELSE body.text)

\* (request.form.get("message") or "").strip()
FormMessage(body) == Strip(IF body.present THEN body.text ELSE <<>>)

\* _vectorizer.transform([message]): the count of the token "a"
Transform(message) == Len(SelectSeq(message, LAMBDA c : c = "a"))

\* _loaded_model.predict(X)[0]: a numpy scalar, of a string or of an integer
ClassifierPredict(X) ==
    IF X > 0 THEN [numpy |-> TRUE, ty |-> "str", s |-> "FAKE", n |-> 0]
             ELSE [numpy |-> TRUE, ty |-> "int", s |-> "", n |-> 1]

\* val.item() if hasattr(val, "item") else val
Item(val) == IF val.numpy THEN [val EXCEPT !.numpy = FALSE] ELSE val

Digits == <<"0", "1", "2", "3", "4", "5", "6", "7", "8", "9">>

\* str(val_py)
Str(val) == IF val.ty = "int" THEN Digits[val.n + 1] ELSE val.s

\* a fast path that looks at the model slot only
BothPresentModelOnly(m, v) == m # None

\* the fast-path test of _load_artifacts_once
BothPresent(m, v) == m # None /\ v # None

\* a slow path without the second presence test
NeedLoadAlways(m, v) == TRUE

\* the test under the lock
NeedLoad(m, v) == m = None \/ v = None

\* a health that looks at the model slot only
ModelLoadedFlagModelOnly(m, v) == m # None

\* bool(_loaded_model is not None and _vectorizer is not None)
ModelLoadedFlag(m, v) == m # None /\ v # None

\* handlers that answer 503 to every exception
StatusAlways503(e) == 503

\* the except clauses of predict_json and predict_form
StatusOf(e) == IF e = "FileNotFoundError" THEN 503 ELSE 500

\* an acquire()/release() pair without try/finally: an exception skips release
LockKeptOnError(t, e) == IF e = "none" THEN NoThread ELSE t

\* the lock after the with block is left, normally or by an exception
LockAfterExit(t, e) == NoThread

\* what _eager_load_background does with an exception of the load
EagerCatch(e) == [log |-> "warning", exc |-> "none"]

(* ------------------------------- Init ---------------------------------- *)
Init ==
    /\ modelFile \in FileStates
    /\ vecFile \in FileStates
    /\ loaded_model = None
    /\ vectorizer = None
    /\ artifact_lock = NoThread
    /\ pc = [t \in Threads |-> IF t = EagerThread THEN "fast" ELSE "new"]
    /\ exc = [t \in Threads |-> "none"]
    /\ req = [t \in Workers |-> NoReq]
    /\ reply = NoReply
    /\ eagerLog = "none"
    /\ modelLoads = 0
    /\ vecLoads = 0
    /\ everInvalid = (modelFile # "valid" \/ vecFile # "valid")

(* ----------------------- _load_artifacts_once -------------------------- *)
\* line 36: the unlocked presence test
FastPath(t) ==
    /\ pc[t] = "fast"
    /\ pc' = [pc EXCEPT ![t] = IF BothPresent(loaded_model, vectorizer)
                               THEN "returned" ELSE "acquire"]
    /\ reply' = NoReply
    /\ UNCHANGED <<modelFile, vecFile, loaded_model, vectorizer, artifact_lock,
                   exc, req, eagerLog, modelLoads, vecLoads, everInvalid>>

\* lines 38-39: with _artifact_lock (blocks while another thread holds it),
\* then the presence test under the lock; only the holder of the lock writes
\* the two globals, so the test sees what the acquisition saw
Acquire(t) ==
    /\ pc[t] = "acquire"
    /\ artifact_lock = NoThread
    /\ artifact_lock' = t
    /\ pc' = [pc EXCEPT ![t] = IF NeedLoad(loaded_model, vectorizer)
                               THEN "loadModel" ELSE "release"]
    /\ reply' = NoReply
    /\ UNCHANGED <<modelFile, vecFile, loaded_model, vectorizer, exc, req,
                   eagerLog, modelLoads, vecLoads, everInvalid>>

\* lines 43-44: open(MODEL_PATH) and _loaded_model = pickle.load(mf)
LoadModel(t) ==
    /\ pc[t] = "loadModel"
    /\ IF modelFile = "missing"
       THEN /\ exc' = [exc EXCEPT ![t] = "FileNotFoundError"]
            /\ pc' = [pc EXCEPT ![t] = "release"]
            /\ UNCHANGED <<loaded_model, modelLoads>>
       ELSE IF modelFile = "corrupt"
       THEN /\ exc' = [exc EXCEPT ![t] = "UnpicklingError"]
            /\ pc' = [pc EXCEPT ![t] = "release"]
            /\ UNCHANGED <<loaded_model, modelLoads>>
       ELSE /\ loaded_model' = modelLoads + 1
            /\ modelLoads' = modelLoads + 1
            /\ pc' = [pc EXCEPT ![t] = "loadVec"]
            /\ UNCHANGED exc
    /\ reply' = NoReply
    /\ UNCHANGED <<modelFile, vecFile, vectorizer, artifact_lock, req,
                   eagerLog, vecLoads, everInvalid>>

\* lines 45-46: open(VECTORIZER_PATH) and _vectorizer = pickle.load(vf)
LoadVectorizer(t) ==
    /\ pc[t] = "loadVec"
    /\ IF vecFile = "missing"
       THEN /\ exc' = [exc EXCEPT ![t] = "FileNotFoundError"]
            /\ UNCHANGED <<vectorizer, vecLoads>>
       ELSE IF vecFile = "corrupt"
       THEN /\ exc' = [exc EXCEPT ![t] = "UnpicklingError"]
            /\ UNCHANGED <<vectorizer, vecLoads>>
       ELSE /\ vectorizer' = vecLoads + 1
            /\ vecLoads' = vecLoads + 1
            /\ UNCHANGED exc
    /\ pc' = [pc EXCEPT ![t] = "release"]
    /\ reply' = NoReply
    /\ UNCHANGED <<modelFile, vecFile, loaded_model, artifact_lock, req,
                   eagerLog, modelLoads, everInvalid>>

\* the end of the with block: the lock is released, an exception goes on
Release(t) ==
    /\ pc[t] = "release"
    /\ artifact_lock' = LockAfterExit(t, exc[t])
    /\ pc' = [pc EXCEPT ![t] = IF exc[t] = "none" THEN "returned" ELSE "raised"]
    /\ reply' = NoReply
    /\ UNCHANGED <<modelFile, vecFile, loaded_model, vectorizer, exc, req,
                   eagerLog, modelLoads, vecLoads, everInvalid>>

(* ----------------------- _eager_load_background ------------------------ *)
\* lines 64-68: the call has returned or raised; a failure is logged
EagerFinish ==
    /\ pc[EagerThread] \in {"returned", "raised"}
    /\ IF pc[EagerThread] = "raised"
       THEN /\ eagerLog' = EagerCatch(exc[EagerThread]).log
            /\ exc' = [exc EXCEPT ![EagerThread] = EagerCatch(exc[EagerThread]).exc]
       ELSE UNCHANGED <<eagerLog, exc>>
    /\ pc' = [pc EXCEPT ![EagerThread] = "done"]
    /\ reply' = NoReply
    /\ UNCHANGED <<modelFile, vecFile, loaded_model, vectorizer, artifact_lock,
                   req, modelLoads, vecLoads,
                   everInvalid>>

(* ------------------------------ handlers ------------------------------- *)
\* every request is served on a thread of its own; the threads are numbered
\* in the order in which the requests arrive
NewWorkers == {t \in Workers : pc[t] = "new"}
NextWorker == CHOOSE t \in NewWorkers : \A u \in NewWorkers : t <= u

\* health(): GET /
Health ==
    /\ NewWorkers # {}
    /\ pc' = [pc EXCEPT ![NextWorker] = "done"]
    /\ reply' = [NoReply EXCEPT
                   !.endpoint = "health", !.status = 200,
                   !.keys = {"status", "model_loaded", "model_path",
                             "vectorizer_path"},
                   !.model_loaded = ModelLoadedFlag(loaded_model, vectorizer)]
    /\ UNCHANGED <<modelFile, vecFile, loaded_model, vectorizer, artifact_lock,
                   exc, req, eagerLog, modelLoads, vecLoads, everInvalid>>

\* predict_json(), lines 300-308: validation, then the call of _predict_text
PredictJson(body) ==
    /\ NewWorkers # {}
    /\ LET message == JsonMessage(body) IN
       IF message = <<>>
       THEN /\ reply' = [NoReply EXCEPT !.endpoint = "predict", !.status = 400,
                                        !.keys = {"error"}]
            /\ pc' = [pc EXCEPT ![NextWorker] = "done"]
            /\ UNCHANGED req
       ELSE /\ req' = [req EXCEPT ![NextWorker] = [endpoint |-> "predict",
                                                   message |-> message]]
            /\ pc' = [pc EXCEPT ![NextWorker] = "fast"]
            /\ reply' = NoReply
    /\ UNCHANGED <<modelFile, vecFile, loaded_model, vectorizer, artifact_lock,
                   exc, eagerLog, modelLoads, vecLoads,
                   everInvalid>>

\* predict_form(), lines 247-262
PredictForm(body) ==
    /\ NewWorkers # {}
    /\ LET message == FormMessage(body) IN
       IF message = <<>>
       THEN /\ reply' = [NoReply EXCEPT
                           !.endpoint = "predict_form", !.status = 400,
                           !.keys = {"error"},
                           !.model_loaded =
                               ModelLoadedFlag(loaded_model, vectorizer)]
            /\ pc' = [pc EXCEPT ![NextWorker] = "done"]
            /\ UNCHANGED req
       ELSE /\ req' = [req EXCEPT ![NextWorker] = [endpoint |-> "predict_form",
                                                   message |-> message]]
            /\ pc' = [pc EXCEPT ![NextWorker] = "fast"]
            /\ reply' = NoReply
    /\ UNCHANGED <<modelFile, vecFile, loaded_model, vectorizer, artifact_lock,
                   exc, eagerLog, modelLoads, vecLoads,
                   everInvalid>>

\* _predict_text lines 54-59 and the 200 response of the handler
Infer(t) ==
    /\ t \in Workers
    /\ pc[t] = "returned"
    /\ IF vectorizer # None /\ loaded_model # None
       THEN /\ reply' = [NoReply EXCEPT
                           !.endpoint = req[t].endpoint, !.status = 200,
                           !.keys = {"label"},
                           !.label = Str(Item(ClassifierPredict(
                                             Transform(req[t].message)))),
                           !.model_loaded = (req[t].endpoint = "predict_form"),
                           !.message = req[t].message]
            /\ pc' = [pc EXCEPT ![t] = "done"]
            /\ req' = [req EXCEPT ![t] = NoReq]
            /\ UNCHANGED exc
       ELSE \* None has no transform or predict: AttributeError
            /\ exc' = [exc EXCEPT ![t] = "InferenceError"]
            /\ pc' = [pc EXCEPT ![t] = "raised"]
            /\ reply' = NoReply
            /\ UNCHANGED req
    /\ UNCHANGED <<modelFile, vecFile, loaded_model, vectorizer, artifact_lock,
                   eagerLog, modelLoads, vecLoads, everInvalid>>

\* the except clauses of predict_json (310-314) and predict_form (270-294)
HandleError(t) ==
    /\ t \in Workers
    /\ pc[t] = "raised"
    /\ reply' = [NoReply EXCEPT
                   !.endpoint = req[t].endpoint, !.status = StatusOf(exc[t]),
                   !.keys = {"error"},
                   !.model_loaded =
                       (/\ req[t].endpoint = "predict_form"
                        /\ StatusOf(exc[t]) = 500
                        /\ ModelLoadedFlag(loaded_model, vectorizer)),
                   !.message = req[t].message,
                   !.raised = exc[t]]
    /\ pc' = [pc EXCEPT ![t] = "done"]
    /\ exc' = [exc EXCEPT ![t] = "none"]
    /\ req' = [req EXCEPT ![t] = NoReq]
    /\ UNCHANGED <<modelFile, vecFile, loaded_model, vectorizer, artifact_lock,
                   eagerLog, modelLoads, vecLoads, everInvalid>>

(* ----------------------------- environment ----------------------------- *)
\* the artifact files are written, replaced or removed from outside
FileChange ==
    /\ \E s \in FileStates :
          \/ s # modelFile /\ modelFile' = s /\ UNCHANGED vecFile
          \/ s # vecFile /\ vecFile' = s /\ UNCHANGED modelFile
    /\ everInvalid' = (everInvalid \/ modelFile' # "valid" \/ vecFile' # "valid")
    /\ reply' = NoReply
    /\ UNCHANGED <<loaded_model, vectorizer, artifact_lock, pc, exc, req,
                   eagerLog, modelLoads, vecLoads>>

(* --------------------------- specification ----------------------------- *)
ThreadStep(t) ==
    \/ FastPath(t)
    \/ Acquire(t)
    \/ LoadModel(t)
    \/ LoadVectorizer(t)
    \/ Release(t)

WorkerStep(t) ==
    \/ Infer(t)
    \/ HandleError(t)

Next ==
    \/ \E t \in Threads : ThreadStep(t)
    \/ EagerFinish
    \/ \E t \in Workers : WorkerStep(t)
    \/ Health
    \/ \E body \in JsonBodies : PredictJson(body)
    \/ \E body \in FormBodies : PredictForm(body)
    \/ FileChange

Spec == Init /\ [][Next]_vars

\* a step of some thread of the process
Run ==
    \/ \E t \in Threads : ThreadStep(t)
    \/ EagerFinish
    \/ \E t \in Workers : WorkerStep(t)

\* while some thread is runnable, the process runs one; requests and file
\* changes are the environment's and carry no fairness
FairSpec == Spec /\ WF_vars(Run)

(* ========================== checked properties ========================= *)
Loaded == loaded_model # None /\ vectorizer # None
InLoad(t) == pc[t] \in {"loadModel", "loadVec"}
InLock(t) == pc[t] \in {"loadModel", "loadVec", "release"}
Active(t) == pc[t] \notin {"new", "done"}
IsBlank(text) == \A i \in 1..Len(text) : text[i] \in Whitespace
LoadError(e) == e \in {"FileNotFoundError", "UnpicklingError"}
ExpectedLabel(message) == IF message = <<"a">> THEN "FAKE" ELSE "1"

\* C1: while both files have been valid throughout, each file is unpickled
\* at most once, no call fails, and every caller that has come back from
\* _load_artifacts_once finds exactly one load of each file done; a caller
\* that finds both artifacts present under the lock leaves without loading.
C1_LoadedExactlyOnce ==
    ~everInvalid =>
        /\ modelLoads <= 1 /\ vecLoads <= 1
        /\ \A t \in Threads : exc[t] = "none"
        /\ \A t \in Threads : InLoad(t) => \A u \in Threads \ {t} : ~InLock(u)
        /\ \A t \in Threads :
              pc[t] = "returned" => modelLoads = 1 /\ vecLoads = 1
        /\ pc[EagerThread] = "done" => modelLoads = 1 /\ vecLoads = 1
        /\ reply.status = 200 /\ reply.endpoint # "health"
              => modelLoads = 1 /\ vecLoads = 1

\* two request threads and the eager thread all missed the fast path; one
\* loaded, one is leaving the lock without loading, one still waits
C1_Witness ==
    /\ ~everInvalid
    /\ modelLoads = 1 /\ vecLoads = 1
    /\ pc[1] = "returned"
    /\ pc[2] = "release"
    /\ pc[EagerThread] = "acquire"

\* C2: no thread is past _load_artifacts_once while an artifact is absent
\* (a caller that meets a half-done load waits for the lock), and while both
\* files have been valid throughout every answer of POST /predict to a
\* non-empty message is 200 with the string form of the prediction.
C2_PredictOk ==
    /\ \A t \in Threads : pc[t] = "returned" => Loaded
    /\ \A t \in Workers : pc[t] = "raised" => LoadError(exc[t])
    /\ ~everInvalid /\ reply.endpoint = "predict" /\ reply.message # <<>>
          => /\ reply.status = 200
             /\ reply.keys = {"label"}
             /\ reply.label = ExpectedLabel(reply.message)

\* a request is answered 200 while the eager thread still waits for the lock
C2_Witness ==
    /\ ~everInvalid
    /\ reply.endpoint = "predict" /\ reply.status = 200
    /\ reply.label = "FAKE"
    /\ pc[EagerThread] = "acquire"

\* C3: once both artifacts are stored, no step stores either again, changes
\* or clears a slot, or brings a thread to one of the open/pickle.load lines.
C3_LoadedIsTerminal ==
    [][Loaded =>
          /\ loaded_model' = loaded_model
          /\ vectorizer' = vectorizer
          /\ modelLoads' = modelLoads
          /\ vecLoads' = vecLoads
          /\ \A t \in Threads : ~InLoad(t)'
          /\ \A t \in Threads : pc[t] = "fast" /\ pc'[t] # "fast"
                                   => pc'[t] = "returned"]_vars

\* the artifacts stay although the files are gone, and a request is served
C3_Witness ==
    /\ Loaded
    /\ modelFile = "missing" /\ vecFile = "corrupt"
    /\ reply.status = 200 /\ reply.endpoint = "predict"
    /\ modelLoads = 1 /\ vecLoads = 1

\* C4: a call that raises leaves the lock free (the lock is held exactly by
\* the thread inside the with block); a later call that finds an artifact
\* absent under the lock attempts the load again; and an attempt that finds
\* both files valid stores both artifacts and returns normally.
C4_FailureNotCached ==
    /\ [](\A t \in Threads : (artifact_lock = t) <=> InLock(t))
    /\ [](\A t \in Threads : pc[t] = "raised" /\ LoadError(exc[t])
                                => artifact_lock # t)
    /\ [][\A t \in Threads :
            /\ pc[t] = "release" /\ pc'[t] # "release"
                  => artifact_lock' = NoThread
            /\ pc[t] = "acquire" /\ pc'[t] # "acquire" /\ ~Loaded
                  => pc'[t] = "loadModel"
            /\ pc[t] = "loadModel" /\ pc'[t] # "loadModel"
               /\ modelFile = "valid"
                  => pc'[t] = "loadVec" /\ loaded_model' # None
                     /\ exc'[t] = "none"
            /\ pc[t] = "loadVec" /\ pc'[t] # "loadVec" /\ vecFile = "valid"
                  => Loaded' /\ exc'[t] = "none"]_vars

\* the eager attempt failed, a request's attempt then succeeded
C4_Witness ==
    /\ eagerLog = "warning"
    /\ Loaded
    /\ artifact_lock = NoThread
    /\ \E t \in Workers : pc[t] = "returned"

\* C5 as claimed: every failure of the load is answered 503, and 500 is
\* answered only to a failure of transform/predict.
C5_AsClaimed ==
    /\ LoadError(reply.raised) => reply.status = 503
    /\ reply.status = 500 => reply.raised = "InferenceError"

\* C5 amended: the load raises FileNotFoundError exactly for a missing file
\* and an unpickling error exactly for an undeserializable one, at the first
\* of the two files that fails; the handlers answer 503 to FileNotFoundError
\* and 500 to the unpickling error as to any other exception.
C5_Amended ==
    /\ [](reply.raised # "none" =>
            /\ reply.endpoint \in {"predict", "predict_form"}
            /\ reply.keys = {"error"}
            /\ (reply.status = 503) <=> (reply.raised = "FileNotFoundError")
            /\ (reply.status = 500) <=>
                   (reply.raised \in {"UnpicklingError", "InferenceError"}))
    /\ [](reply.status \in {500, 503} => reply.raised # "none")
    /\ [][\A t \in Threads :
            exc'[t] # exc[t] /\ exc'[t] # "none" =>
               /\ exc'[t] = "FileNotFoundError" <=>
                     \/ pc[t] = "loadModel" /\ modelFile = "missing"
                     \/ pc[t] = "loadVec" /\ vecFile = "missing"
               /\ exc'[t] = "UnpicklingError" <=>
                     \/ pc[t] = "loadModel" /\ modelFile = "corrupt"
                     \/ pc[t] = "loadVec" /\ vecFile = "corrupt"]_vars

\* an undeserializable file is answered 500
C5_Witness ==
    /\ reply.status = 500
    /\ reply.raised = "UnpicklingError"
    /\ reply.endpoint = "predict_form"

C7_HealthFlag ==
    /\ [](reply.endpoint = "health" =>
            /\ reply.status = 200
            /\ "model_loaded" \in reply.keys
            /\ reply.model_loaded <=> (modelLoads >= 1 /\ vecLoads >= 1)
            /\ (\E t \in Threads : InLoad(t)) => ~reply.model_loaded
            /\ (modelLoads = 0 \/ vecLoads = 0) => ~reply.model_loaded)
    /\ [][Loaded => Loaded']_vars

\* GET / during a load whose model is stored already
C7_Witness ==
    /\ reply.endpoint = "health" /\ ~reply.model_loaded
    /\ loaded_model # None
    /\ \E t \in Threads : pc[t] = "loadVec"

\* C8: the eager thread ends with its exception caught and logged and
\* without the lock; a request thread can always take its next step unless
\* it waits for a lock that a thread inside the with block holds; a request
\* that finds an artifact absent under the lock loads itself; and every
\* request that reached _predict_text is answered.
C8_EagerFailureContained ==
    /\ [](pc[EagerThread] = "done" =>
             exc[EagerThread] = "none" /\ artifact_lock # EagerThread)
    /\ [](\A t \in Workers :
             Active(t) =>
                \/ ENABLED (ThreadStep(t) \/ WorkerStep(t))
                \/ /\ pc[t] = "acquire"
                   /\ \E h \in Threads : artifact_lock = h /\ InLock(h)
                                         /\ ENABLED ThreadStep(h))
    /\ [][\A t \in Workers :
            pc[t] = "acquire" /\ pc'[t] # "acquire" /\ ~Loaded
               => pc'[t] = "loadModel"]_vars
    /\ []<>(\A t \in Workers : ~Active(t))

\* the eager load failed and a later request was answered 200
C8_Witness ==
    /\ eagerLog = "warning"
    /\ pc[EagerThread] = "done"
    /\ reply.status = 200 /\ reply.endpoint = "predict"

\* C9 as claimed: each artifact is unpickled and stored at most once.
C9_AsClaimed == modelLoads <= 1 /\ vecLoads <= 1

\* C10 as claimed: a call that leaves the with block with an exception
\* leaves both slots empty.
C10_AsClaimed ==
    \A t \in Threads :
       pc[t] = "release" /\ exc[t] # "none"
          => loaded_model = None /\ vectorizer = None

====
